---- MODULE Spec2Model ----
(***************************************************************************)
(* FormatBench, scripts/run_matrix.py: the Parquet row-group pruning       *)
(* estimator, the percentile reduction and the benchmark matrix driver.    *)
(*                                                                         *)
(* Dates are day numbers counted from 1970-01-01.  Timings are whole       *)
(* milliseconds; a percentile is carried as its value times 100, which is  *)
(* exact for p in {50, 95} (the interpolation weight is a multiple of      *)
(* 1/100), so no floating-point rounding is modelled.                      *)
(***************************************************************************)
EXTENDS Integers, Sequences, FiniteSets, TLC

VARIABLES
    \* --- parquet_bytes_and_groups_for_cutoff, one call -------------------
    groups,          \* pf.metadata.row_group(0..n-1) of the file
    has_column,      \* schema_arrow.get_field_index("l_shipdate") # -1
    cutoff,          \* pd.to_datetime(cutoff_date_str).date(), a day number
    i,               \* number of loop iterations completed
    total_groups, total_bytes, scanned_bytes, scanned_groups,
    decided,         \* history: per processed row group "scanned"/"pruned"
    est_pc,          \* "idle" | "loop" | "returned"
    \* --- percentile(vals, p) over one cell's timings ----------------------
    orig,            \* the timings in the order they were measured
    vals,            \* the same timings in the order handed to percentile
    p50, p95,        \* results of percentile(vals, 50), percentile(vals, 95)
    pct_pc,          \* "idle" | "input" | "computed"
    \* --- one run of the script: module import, then main() ---------------
    CFG,             \* what yaml.safe_load(config.yaml) yields (line 16)
    manifest_json,   \* content of results/parquet_variants.json
    engine_ms,       \* latency of the engine in this run (ms)
    pc,              \* position in the script
    pv,              \* the manifest as loaded at line 173
    cutoffs,         \* selectivity -> cutoff day, filled at lines 111-115
    calibrated,      \* fractions calibrated so far (loop at line 111)
    stage,           \* "parquet" | "row": which loop of main() is running
    unit,            \* variants (formats) of the current loop already done
    cell,            \* index of the current cell within the variant/format
    r,               \* repetitions of the current cell already done
    times,           \* timings of the current cell
    rows,            \* the list `rows`
    metrics_csv,     \* results/metrics.csv: None or the written table
    prof_root,       \* the profiling/ directory exists
    prof_dirs,       \* profiling directories created by main()
    prof_runs,       \* history: (cell, repetition, diagnostic path) handed
                     \* to the engine
    manifest_read,   \* the manifest file has been read
    queries,         \* queries submitted to the engine so far
    error,           \* None or the exception that ended the run
    submitted,       \* history: the repetitions of this run in the order
                     \* they were submitted, each with its cell and SQL text
    row_times,       \* history: for each element of `rows` the timings its
                     \* percentiles were computed from
    rerun,           \* the script has been started a second time
    answers          \* history: the quantiles the engine has returned for
                     \* the sample file, by fraction

estVars == <<groups, has_column, cutoff, i, total_groups, total_bytes,
             scanned_bytes, scanned_groups, decided, est_pc>>

pctVars == <<orig, vals, p50, p95, pct_pc>>

runVars == <<CFG, manifest_json, engine_ms, pc, pv, cutoffs, calibrated, stage, unit,
             cell, r, times, rows, metrics_csv, prof_root, prof_dirs,
             prof_runs, manifest_read, queries, error, submitted,
             row_times, rerun, answers>>

vars == <<estVars, pctVars, runVars>>

-----------------------------------------------------------------------------
(* Bounds *)
MaxGroups == 3      \* row groups per Parquet file
MaxTimings == 4     \* timings handed to one percentile call
MaxVariants == 2    \* entries of the variant manifest

-----------------------------------------------------------------------------
(* Values a row group's statistics can hand back as `min` *)

NoneV     == [t |-> "none"]                      \* Python None
DateV(d)  == [t |-> "date",  d |-> d]            \* datetime.date
IntV(n)   == [t |-> "int",   n |-> n]            \* int: days since epoch
FloatV(h) == [t |-> "float", h |-> h]            \* float, h halves (h/2)
StrV(d, hh) == [t |-> "str", d |-> d, hh |-> hh] \* ISO text, day d hour hh
BytesV(d) == [t |-> "bytes", d |-> d]            \* utf-8 bytes of ISO text
BadStrV   == [t |-> "badstr"]                    \* text pandas cannot parse
BadBytesV == [t |-> "badbytes"]                  \* bytes that are not utf-8

\* result of _to_date: None or a date
NoDate    == [none |-> TRUE,  day |-> 0]
ADate(d)  == [none |-> FALSE, day |-> d]

\* int(x) of a float given in halves: truncation toward zero
TruncHalves(h) == IF h >= 0 THEN h \div 2 ELSE -((-h) \div 2)

\* _to_date(val), run_matrix.py:68-76
_to_date(val) ==
    CASE val.t = "none"     -> NoDate
      [] val.t = "bytes"    -> ADate(val.d)      \* decode, then to_datetime
      [] val.t = "badbytes" -> NoDate            \* UnicodeDecodeError caught
      [] val.t = "int"      -> ADate(val.n)      \* epoch + n days
      [] val.t = "float"    -> ADate(TruncHalves(val.h))
      [] val.t = "str"      -> ADate(val.d)      \* .date() drops the time
      [] val.t = "date"     -> ADate(val.d)
      [] val.t = "badstr"   -> NoDate            \* parse error caught
      [] OTHER              -> NoDate

\* a row group's metadata: its byte size and the l_shipdate column statistics
RowGroup(b, hs, m) == [total_byte_size |-> b, has_stats |-> hs, min |-> m]

RowGroupChoices ==
    { RowGroup(100, TRUE, DateV(0)),  RowGroup(100, TRUE, DateV(10)),
      RowGroup(100, TRUE, DateV(20)), RowGroup(30, TRUE, DateV(15)),
      RowGroup(40, TRUE, IntV(10)),   RowGroup(50, TRUE, StrV(20, 13)),
      RowGroup(60, TRUE, BytesV(0)),  RowGroup(70, TRUE, FloatV(31)),
      RowGroup(100, FALSE, NoneV),    RowGroup(30, TRUE, NoneV),
      RowGroup(40, TRUE, BadStrV),    RowGroup(50, TRUE, BadBytesV) }

CutoffChoices == {10, 15}

SeqsUpTo(S, n) == UNION { [1..m -> S] : m \in 0..n }

-----------------------------------------------------------------------------
(* parquet_bytes_and_groups_for_cutoff, run_matrix.py:49-98 *)

\* variant of Pruned: an unavailable minimum is taken as "nothing to read"
Pruned_absent_is_pruned(rg, hasCol, T) ==
    /\ hasCol
    /\ \/ ~rg.has_stats
       \/ LET mind == _to_date(rg.min) IN mind.none \/ mind.day >= T

\* variant of Pruned: strict comparison, a minimum equal to the cutoff is read
Pruned_strict(rg, hasCol, T) ==
    /\ hasCol
    /\ rg.has_stats
    /\ LET mind == _to_date(rg.min) IN ~mind.none /\ mind.day > T

\* variant of Pruned: the comparison is turned round, a row group is skipped
\* when its minimum is at or before the cutoff
Pruned_le(rg, hasCol, T) ==
    /\ hasCol
    /\ rg.has_stats
    /\ LET mind == _to_date(rg.min) IN ~mind.none /\ mind.day <= T

\* lines 83-96: TRUE when the row group is skipped by `continue` at line 94
Pruned(rg, hasCol, T) ==
    /\ hasCol
    /\ rg.has_stats
    /\ LET mind == _to_date(rg.min) IN ~mind.none /\ mind.day >= T

\* variant of LoopBody: total_bytes is added only after the statistics were
\* found, so the early `continue` branches skip it
LoopBody_total_after_stats(acc, rg, hasCol, T) ==
    LET sz == rg.total_byte_size IN
    IF ~hasCol \/ ~rg.has_stats
    THEN [acc EXCEPT !.scanned_bytes = @ + sz, !.scanned_groups = @ + 1]
    ELSE IF Pruned(rg, hasCol, T)
    THEN [acc EXCEPT !.total_bytes = @ + sz]
    ELSE [acc EXCEPT !.total_bytes = @ + sz,
                     !.scanned_bytes = @ + sz,
                     !.scanned_groups = @ + 1]

\* one iteration of the loop at lines 78-96 on the accumulators
LoopBody(acc, rg, hasCol, T) ==
    LET tb == acc.total_bytes + rg.total_byte_size IN
    IF Pruned(rg, hasCol, T)
    THEN [acc EXCEPT !.total_bytes = tb]
    ELSE [acc EXCEPT !.total_bytes = tb,
                     !.scanned_bytes = @ + rg.total_byte_size,
                     !.scanned_groups = @ + 1]

EstIdle ==
    /\ groups = << >>
    /\ has_column = TRUE
    /\ cutoff = 0
    /\ i = 0
    /\ total_groups = 0
    /\ total_bytes = 0
    /\ scanned_bytes = 0
    /\ scanned_groups = 0
    /\ decided = << >>
    /\ est_pc = "idle"

EstInit ==
    /\ groups \in SeqsUpTo(RowGroupChoices, MaxGroups)
    /\ has_column \in BOOLEAN
    /\ cutoff \in CutoffChoices
    /\ i = 0
    /\ total_groups = Len(groups)
    /\ total_bytes = 0
    /\ scanned_bytes = 0
    /\ scanned_groups = 0
    /\ decided = << >>
    /\ est_pc = "loop"

EstIterate ==
    /\ est_pc = "loop"
    /\ i < total_groups
    /\ LET rg  == groups[i + 1]
           acc == LoopBody([total_bytes |-> total_bytes,
                            scanned_bytes |-> scanned_bytes,
                            scanned_groups |-> scanned_groups],
                           rg, has_column, cutoff)
       IN /\ total_bytes' = acc.total_bytes
          /\ scanned_bytes' = acc.scanned_bytes
          /\ scanned_groups' = acc.scanned_groups
          /\ decided' = Append(decided,
                 IF acc.scanned_groups = scanned_groups THEN "pruned" ELSE "scanned")
    /\ i' = i + 1
    /\ UNCHANGED <<groups, has_column, cutoff, total_groups, est_pc>>
    /\ UNCHANGED <<pctVars, runVars>>

EstReturn ==
    /\ est_pc = "loop"
    /\ i = total_groups
    /\ est_pc' = "returned"
    /\ UNCHANGED <<groups, has_column, cutoff, i, total_groups, total_bytes,
                   scanned_bytes, scanned_groups, decided>>
    /\ UNCHANGED <<pctVars, runVars>>

-----------------------------------------------------------------------------
(* percentile, run_matrix.py:18-24 *)

NoneP    == [none |-> TRUE,  x100 |-> 0]     \* Python None
Num(x)   == [none |-> FALSE, x100 |-> x]     \* the number x/100

\* insert x into the nondecreasing sequence s
RECURSIVE Insert(_, _)
Insert(x, s) ==
    IF s = << >> THEN <<x>>
    ELSE IF x <= Head(s) THEN <<x>> \o s
    ELSE <<Head(s)>> \o Insert(x, Tail(s))

\* sorted(vals), line 19
RECURSIVE sorted(_)
sorted(s) == IF s = << >> THEN << >> ELSE Insert(Head(s), sorted(Tail(s)))

\* variant of percentile: the list is used in the order given
percentile_unsorted(v, p) ==
    IF v = << >> THEN NoneP
    ELSE LET k100 == (Len(v) - 1) * p
             f    == k100 \div 100
             c    == IF k100 % 100 = 0 THEN f ELSE f + 1
         IN IF f = c THEN Num(100 * v[f + 1])
            ELSE Num(100 * v[f + 1] + (v[c + 1] - v[f + 1]) * (k100 - 100 * f))

\* percentile(vals, p), lines 18-24; k = k100/100, indices are 0-based there
percentile(v, p) ==
    LET s == sorted(v) IN
    IF s = << >> THEN NoneP
    ELSE LET k100 == (Len(s) - 1) * p
             f    == k100 \div 100
             c    == IF k100 % 100 = 0 THEN f ELSE f + 1
         IN IF f = c THEN Num(100 * s[f + 1])
            ELSE Num(100 * s[f + 1] + (s[c + 1] - s[f + 1]) * (k100 - 100 * f))

TimingChoices == {1, 2, 7}

PctIdle ==
    /\ orig = << >>
    /\ vals = << >>
    /\ p50 = NoneP
    /\ p95 = NoneP
    /\ pct_pc = "idle"

PctInit ==
    /\ orig \in SeqsUpTo(TimingChoices, MaxTimings)
    /\ vals = orig
    /\ p50 = NoneP
    /\ p95 = NoneP
    /\ pct_pc = "input"

\* p50, p95 = percentile(times, 50), percentile(times, 95)  (line 204)
PctCompute ==
    /\ pct_pc = "input"
    /\ p50' = percentile(vals, 50)
    /\ p95' = percentile(vals, 95)
    /\ pct_pc' = "computed"
    /\ UNCHANGED <<orig, vals>>
    /\ UNCHANGED <<estVars, runVars>>

\* the same timings are presented again in another order
PctShuffle ==
    /\ pct_pc = "computed"
    /\ \E j \in 1..(Len(vals) - 1) :
          /\ vals[j] # vals[j + 1]
          /\ vals' = [vals EXCEPT ![j] = vals[j + 1], ![j + 1] = vals[j]]
    /\ pct_pc' = "input"
    /\ UNCHANGED <<orig, p50, p95>>
    /\ UNCHANGED <<estVars, runVars>>

-----------------------------------------------------------------------------
(* The run: module body (lines 9-16) and main() (lines 169-394) *)

None    == << >>            \* Python None / a key that is not there
Some(x) == <<x>>

\* --- what the run finds on disk ---------------------------------------

\* Parquet metadata of the files the manifest can name
ParquetFile(path) ==
    CASE path = "data/lineitem.parquet.rg1mb.zstd.parquet" ->
            [has_column |-> TRUE,
             groups |-> << RowGroup(100, TRUE, DateV(0)), RowGroup(100, TRUE, DateV(0)),
                           RowGroup(100, TRUE, DateV(0)) >>]
      [] path = "data/lineitem.sorted.parquet.rg1mb.zstd.parquet" ->
            [has_column |-> TRUE,
             groups |-> << RowGroup(100, TRUE, DateV(0)), RowGroup(100, TRUE, DateV(10)),
                           RowGroup(100, TRUE, DateV(20)) >>]
      [] path = "data/lineitem.parquet.rg4mb.none.parquet" ->
            [has_column |-> TRUE,
             groups |-> << RowGroup(100, FALSE, NoneV), RowGroup(40, TRUE, IntV(10)) >>]

\* manifest entries as prepare_data.py writes them (the third one by hand,
\* without the "sorted" key).  A codec name is the sequence of its
\* characters, so that lower-casing works on it character by character.
VariantPool ==
    { [row_group_mb_target |-> 1, compression |-> <<"Z", "S", "T", "D">>, sorted |-> Some(FALSE),
       full_path |-> "data/lineitem.parquet.rg1mb.zstd.parquet"],
      [row_group_mb_target |-> 1, compression |-> <<"Z", "S", "T", "D">>, sorted |-> Some(TRUE),
       full_path |-> "data/lineitem.sorted.parquet.rg1mb.zstd.parquet"],
      [row_group_mb_target |-> 4, compression |-> <<"N", "O", "N", "E">>, sorted |-> None,
       full_path |-> "data/lineitem.parquet.rg4mb.none.parquet"] }

ManifestChoices ==
    { m \in SeqsUpTo(VariantPool, MaxVariants) :
          \A a, b \in 1..Len(m) : a # b => m[a] # m[b] }

\* config.yaml: each required key is absent (None) or present.  Selectivities
\* are given in thousandths (10 is 0.01, 100 is 0.1, 500 is 0.5).
SelectivityChoices == { None, Some(<< >>), Some(<<100>>), Some(<<10, 500>>),
                        Some(<<100, 100>>), Some(<<280, 290>>) }
RunsChoices        == { None, Some(0), Some(1), Some(5) }
FormatsChoices     == { None, Some(<<"parquet">>), Some(<<"parquet", "csv", "ndjson">>),
                        Some(<<"csv", "csv">>) }

\* (t1 - t0) * 1000.0 of the first repetition, lines 164-167
EngineMsChoices    == {7}

\* file_path.stat().st_size, line 310
FileSize(fmt) == IF fmt = "csv" THEN 700 ELSE 900

\* str.lower() on ASCII text: an upper-case letter becomes its lower-case
\* letter, every other character stays
UpperCase == << "A", "B", "C", "D", "E", "F", "G", "H", "I", "J", "K", "L", "M",
               "N", "O", "P", "Q", "R", "S", "T", "U", "V", "W", "X", "Y", "Z" >>
LowerCase == << "a", "b", "c", "d", "e", "f", "g", "h", "i", "j", "k", "l", "m",
               "n", "o", "p", "q", "r", "s", "t", "u", "v", "w", "x", "y", "z" >>

LowerChar(ch) ==
    IF \E n \in DOMAIN UpperCase : UpperCase[n] = ch
    THEN LowerCase[CHOOSE n \in DOMAIN UpperCase : UpperCase[n] = ch]
    ELSE ch

\* codec.lower(), line 197, of a codec name given as its characters
Lower(codec) == [n \in 1..Len(codec) |-> LowerChar(codec[n])]

\* --- the matrix ----------------------------------------------------------

Q1Cell(sel) == [query |-> "q1_filter_agg", selectivity |-> Some(sel),
                column_mode |-> "n/a", tag |-> "sel"]
NoSargCell  == [query |-> "q1_nosarg", selectivity |-> None,
                column_mode |-> "n/a", tag |-> "nosarg"]
Q2Cell(label) == [query |-> "q2_projection", selectivity |-> None,
                  column_mode |-> label,
                  tag |-> IF label = "narrow" THEN "q2_narrow" ELSE "q2_wide"]
Q3Cell      == [query |-> "q3_scan_group", selectivity |-> None,
                column_mode |-> "n/a", tag |-> "q3"]

\* variant of ParquetCells: the non-sargable query is run before the date
\* filters
ParquetCells_nosarg_first(sels) ==
    << NoSargCell >> \o [j \in 1..Len(sels) |-> Q1Cell(sels[j])]
        \o << Q2Cell("narrow"), Q2Cell("wide"), Q3Cell >>

\* the cells of one Parquet variant in the order of lines 195-303
ParquetCells(sels) ==
    [j \in 1..Len(sels) |-> Q1Cell(sels[j])]
        \o << NoSargCell, Q2Cell("narrow"), Q2Cell("wide"), Q3Cell >>

\* the cells of one row format in the order of lines 314-390
RowCells(sels) ==
    [j \in 1..Len(sels) |-> Q1Cell(sels[j])]
        \o << Q2Cell("narrow"), Q2Cell("wide"), Q3Cell >>

row_formats == {"csv", "ndjson"}

selectivities == CFG.selectivities[1]
runs_per_case == CFG.runs_per_case[1]
formats       == CFG.formats[1]

Cells   == IF stage = "parquet" THEN ParquetCells(selectivities)
           ELSE RowCells(selectivities)
pv_info == pv[unit + 1]
fmt     == IF stage = "parquet" THEN "parquet" ELSE formats[unit + 1]

\* pv_info.get("sorted", False), line 190
sorted_flag(v) == IF v.sorted = None THEN FALSE ELSE v.sorted[1]

\* The selectivities of 0 .. 1 with at most three decimals whose product
\* with 100 in binary floating point falls just below the whole number:
\* 0.29*100 = 28.999999999999996, 0.57*100 = 56.99999999999999,
\* 0.58*100 = 57.99999999999999.  For every other such selectivity the
\* product is at or just above the exact value.
ProductBelow == {290, 570, 580}

\* int(sel*100) for a selectivity given in thousandths: the float product
\* truncated toward zero
SelPercent(sel) == IF sel \in ProductBelow THEN sel \div 10 - 1 ELSE sel \div 10

\* prof_dir of a cell: the components of the directory name built at lines
\* 197, 224, 252, 280 (Parquet) and 316, 342, 368 (row formats)
ProfDir(f, v, c) ==
    [fmt   |-> f,
     rg    |-> IF f = "parquet" THEN Some(v.row_group_mb_target) ELSE None,
     codec |-> IF f = "parquet" THEN Some(Lower(v.compression)) ELSE None,
     tag   |-> c.tag,
     pct   |-> IF c.tag = "sel" THEN Some(SelPercent(c.selectivity[1])) ELSE None]

\* prof = prof_dir / f"run{r}.json"
ProfPath(dir, rep) == [dir |-> dir, run |-> rep]

\* the identity of a matrix cell
CellId(f, v, c) ==
    [format       |-> f,
     row_group_mb |-> IF f = "parquet" THEN Some(v.row_group_mb_target) ELSE None,
     compression  |-> IF f = "parquet" THEN Some(v.compression) ELSE None,
     sorted       |-> IF f = "parquet" THEN Some(sorted_flag(v)) ELSE None,
     query        |-> c.query,
     column_mode  |-> c.column_mode,
     selectivity  |-> c.selectivity]

\* the variant record is only looked at for Parquet cells
CurVariant == IF stage = "parquet" THEN pv_info ELSE CHOOSE v \in VariantPool : TRUE
CurDir     == ProfDir(fmt, CurVariant, Cells[cell])
CurCellId  == CellId(fmt, CurVariant, Cells[cell])

\* --- the estimator as main() calls it ------------------------------------

RECURSIVE EstLoop(_, _, _, _, _)
EstLoop(gs, j, acc, hasCol, T) ==
    IF j > Len(gs) THEN acc
    ELSE EstLoop(gs, j + 1, LoopBody(acc, gs[j], hasCol, T), hasCol, T)

\* parquet_bytes_and_groups_for_cutoff(path, cutoff), lines 49-98
parquet_bytes_and_groups_for_cutoff(file, T) ==
    LET acc == EstLoop(file.groups, 1,
                       [total_bytes |-> 0, scanned_bytes |-> 0, scanned_groups |-> 0],
                       file.has_column, T)
    IN [sb |-> acc.scanned_bytes, tb |-> acc.total_bytes,
        sg |-> acc.scanned_groups, tg |-> Len(file.groups)]

RECURSIVE SumSizes(_)
SumSizes(gs) == IF gs = << >> THEN 0 ELSE Head(gs).total_byte_size + SumSizes(Tail(gs))

\* variant of parquet_total_bytes_and_groups: the statistics are consulted
\* as for a date filter
parquet_total_bytes_and_groups_pruning(file) ==
    LET e == parquet_bytes_and_groups_for_cutoff(file, 15)
    IN [tb |-> e.sb, tg |-> e.sg]

\* parquet_total_bytes_and_groups(path), lines 43-47
parquet_total_bytes_and_groups(file) ==
    [tb |-> SumSizes(file.groups), tg |-> Len(file.groups)]

\* --- the SQL text of the queries, lines 31-39 and 120-158 -------------------

\* source_expr(fmt, pv), lines 31-39
source_expr(f, v) ==
    CASE f = "parquet" -> [reader |-> "read_parquet", path |-> v.full_path]
      [] f = "csv"     -> [reader |-> "read_csv_auto", path |-> "data/lineitem.csv"]
      [] f = "ndjson"  -> [reader |-> "read_json_auto", path |-> "data/lineitem.ndjson"]

\* shipdate_expr_for(fmt), lines 120-126
shipdate_expr_for(f) ==
    IF f = "ndjson" THEN "CASE WHEN typeof(l_shipdate) = 'BIGINT' ..." ELSE "l_shipdate"

\* sql_q1, lines 130-131: ... WHERE {shipdate_expr} < DATE '{cutoff}'
sql_q1(src, ship, T) ==
    [shape |-> "q1", src |-> src, ship |-> Some(ship), cutoff |-> Some(T)]

\* sql_q1_nosarg, lines 133-137; the year is always "1996" (line 182)
sql_q1_nosarg(src, ship) ==
    [shape |-> "q1_nosarg", src |-> src, ship |-> Some(ship), cutoff |-> None]

\* sql_q2_narrow, sql_q2_wide, sql_q3_scan_group, lines 139-158
sql_q2_narrow(src)     == [shape |-> "q2_narrow", src |-> src, ship |-> None, cutoff |-> None]
sql_q2_wide(src)       == [shape |-> "q2_wide", src |-> src, ship |-> None, cutoff |-> None]
sql_q3_scan_group(src) == [shape |-> "q3", src |-> src, ship |-> None, cutoff |-> None]

\* the query text of the current cell, e.g. line 202
CurrentSql ==
    LET c    == Cells[cell]
        src  == source_expr(fmt, CurVariant)
        ship == shipdate_expr_for(fmt)
    IN CASE c.tag = "sel"       -> sql_q1(src, ship, cutoffs[c.selectivity[1]])
         [] c.tag = "nosarg"    -> sql_q1_nosarg(src, ship)
         [] c.tag = "q2_narrow" -> sql_q2_narrow(src)
         [] c.tag = "q2_wide"   -> sql_q2_wide(src)
         [] c.tag = "q3"        -> sql_q3_scan_group(src)

\* --- the rows appended to `rows` -------------------------------------------

\* round(p, 2) of a percentile carried in hundredths: already on the grid
round2(pct) == pct.x100

\* the columns every row has; the DataFrame at line 392 fills a key a row
\* does not set with null
BlankRow(c, f, t) ==
    [query |-> c.query, format |-> f, selectivity |-> c.selectivity,
     row_group_mb |-> None, compression |-> None,
     column_mode |-> c.column_mode,
     runs |-> runs_per_case,
     p50_ms |-> round2(percentile(t, 50)),
     p95_ms |-> round2(percentile(t, 95)),
     bytes_scanned |-> None, rowgroups_total |-> None,
     rowgroups_scanned |-> None, pushdown_hit |-> None,
     sorted |-> None, cols_projected |-> None]

OfVariant(row, v) ==
    [row EXCEPT !.row_group_mb = Some(v.row_group_mb_target),
                !.compression = Some(v.compression),
                !.sorted = Some(sorted_flag(v))]

cols(label) == IF label = "narrow" THEN 3 ELSE 12

\* line 219
pushdown_hit_q1(sg, tg) == IF sg < tg THEN Some(TRUE) ELSE None

\* variant of ParquetQ1Row: the estimate is taken at the cutoff of the first
\* configured selectivity, whatever the selectivity of the cell
ParquetQ1Row_first_cutoff(v, c, t) ==
    LET e == parquet_bytes_and_groups_for_cutoff(ParquetFile(v.full_path),
                                                 cutoffs[selectivities[1]])
    IN [OfVariant(BlankRow(c, "parquet", t), v) EXCEPT
            !.bytes_scanned = Some(e.sb),
            !.rowgroups_total = Some(e.tg),
            !.rowgroups_scanned = Some(e.sg),
            !.pushdown_hit = pushdown_hit_q1(e.sg, e.tg)]

\* lines 205-221
ParquetQ1Row(v, c, t) ==
    LET e == parquet_bytes_and_groups_for_cutoff(ParquetFile(v.full_path),
                                                 cutoffs[c.selectivity[1]])
    IN [OfVariant(BlankRow(c, "parquet", t), v) EXCEPT
            !.bytes_scanned = Some(e.sb),
            !.rowgroups_total = Some(e.tg),
            !.rowgroups_scanned = Some(e.sg),
            !.pushdown_hit = pushdown_hit_q1(e.sg, e.tg)]

\* lines 232-248
ParquetNoSargRow(v, c, t) ==
    LET e == parquet_total_bytes_and_groups(ParquetFile(v.full_path))
    IN [OfVariant(BlankRow(c, "parquet", t), v) EXCEPT
            !.bytes_scanned = Some(e.tb),
            !.rowgroups_total = Some(e.tg),
            !.rowgroups_scanned = Some(e.tg),
            !.pushdown_hit = Some(FALSE)]

\* variant of ParquetQ2Row: "not applicable" written as zero
ParquetQ2Row_zero(v, c, t) ==
    [OfVariant(BlankRow(c, "parquet", t), v) EXCEPT
            !.bytes_scanned = Some(0),
            !.rowgroups_total = Some(0),
            !.rowgroups_scanned = Some(0),
            !.cols_projected = Some(cols(c.column_mode))]

\* lines 260-277
ParquetQ2Row(v, c, t) ==
    [OfVariant(BlankRow(c, "parquet", t), v) EXCEPT
            !.cols_projected = Some(cols(c.column_mode))]

\* lines 288-303
ParquetQ3Row(v, c, t) == OfVariant(BlankRow(c, "parquet", t), v)

\* lines 324-338, 350-365, 376-390
RowFormatRow(f, c, t) ==
    [BlankRow(c, f, t) EXCEPT
            !.bytes_scanned = Some(FileSize(f)),
            !.pushdown_hit = Some(FALSE),
            !.cols_projected = IF c.query = "q2_projection"
                               THEN Some(cols(c.column_mode)) ELSE None]

CurrentRow ==
    LET c == Cells[cell] IN
    IF stage = "parquet"
    THEN CASE c.tag = "sel"    -> ParquetQ1Row(pv_info, c, times)
           [] c.tag = "nosarg" -> ParquetNoSargRow(pv_info, c, times)
           [] c.tag = "q3"     -> ParquetQ3Row(pv_info, c, times)
           [] OTHER            -> ParquetQ2Row(pv_info, c, times)
    ELSE RowFormatRow(fmt, c, times)

\* --- steps -----------------------------------------------------------------

RunInit ==
    /\ CFG \in [selectivities : SelectivityChoices,
                runs_per_case : RunsChoices,
                formats : FormatsChoices]
    /\ manifest_json \in ManifestChoices
    /\ engine_ms \in EngineMsChoices
    /\ pc = "start"
    /\ pv = << >>
    /\ cutoffs = [f \in {} |-> 0]
    /\ calibrated = 0
    /\ stage = "parquet"
    /\ unit = 0
    /\ cell = 0
    /\ r = 0
    /\ times = << >>
    /\ rows = << >>
    /\ metrics_csv = None
    /\ prof_root = FALSE
    /\ prof_dirs = {}
    /\ prof_runs = {}
    /\ manifest_read = FALSE
    /\ queries = 0
    /\ error = None
    /\ submitted = << >>
    /\ row_times = << >>
    /\ rerun = FALSE
    /\ answers = [f \in {} |-> 0]

\* config.yaml as loaded when only a function of the module is called: the
\* usual three keys, or none of them
LoadedConfigChoices ==
    { [selectivities |-> Some(<<100>>), runs_per_case |-> Some(1),
       formats |-> Some(<<"parquet", "csv", "ndjson">>)],
      [selectivities |-> None, runs_per_case |-> None, formats |-> None] }

\* the module has been loaded and main() is not called: the module body,
\* lines 9-16, has made the result and profiling directories and loaded the
\* configuration; nothing of main() has happened
RunIdle ==
    /\ CFG \in LoadedConfigChoices
    /\ manifest_json = << >>
    /\ engine_ms = 0
    /\ pc = "idle"
    /\ pv = << >>
    /\ cutoffs = [f \in {} |-> 0]
    /\ calibrated = 0
    /\ stage = "parquet"
    /\ unit = 0
    /\ cell = 0
    /\ r = 0
    /\ times = << >>
    /\ rows = << >>
    /\ metrics_csv = None
    /\ prof_root = TRUE
    /\ prof_dirs = {}
    /\ prof_runs = {}
    /\ manifest_read = FALSE
    /\ queries = 0
    /\ error = None
    /\ submitted = << >>
    /\ row_times = << >>
    /\ rerun = FALSE
    /\ answers = [f \in {} |-> 0]

inputs == <<CFG, manifest_json, engine_ms>>

\* an exception nobody catches: the interpreter leaves main()
Raise(e) == pc' = "aborted" /\ error' = Some(e)

\* module body, lines 9-16: the result and profiling directories are made,
\* then the configuration is loaded
ImportModule ==
    /\ pc = "start"
    /\ prof_root' = TRUE
    /\ pc' = "main"
    /\ UNCHANGED <<inputs, pv, cutoffs, calibrated, stage, unit, cell, r, times, rows,
                   metrics_csv, prof_dirs, prof_runs, manifest_read, queries,
                   error>>
    /\ UNCHANGED <<submitted, row_times, rerun, answers>>
    /\ UNCHANGED <<estVars, pctVars>>

\* lines 170-175
ReadManifest ==
    /\ pc = "main"
    /\ pv' = manifest_json
    /\ manifest_read' = TRUE
    /\ pc' = "selectivities"
    /\ UNCHANGED <<inputs, cutoffs, calibrated, stage, unit, cell, r, times, rows,
                   metrics_csv, prof_root, prof_dirs, prof_runs, queries, error>>
    /\ UNCHANGED <<submitted, row_times, rerun, answers>>
    /\ UNCHANGED <<estVars, pctVars>>

\* lines 178-180: CFG["selectivities"] raises KeyError when the key is absent
ReadSelectivities ==
    /\ pc = "selectivities"
    /\ IF CFG.selectivities = None
       THEN Raise("KeyError") /\ UNCHANGED calibrated
       ELSE pc' = "calibrate" /\ calibrated' = 0 /\ UNCHANGED error
    /\ UNCHANGED <<inputs, pv, cutoffs, stage, unit, cell, r, times, rows,
                   metrics_csv, prof_root, prof_dirs, prof_runs, manifest_read,
                   queries>>
    /\ UNCHANGED <<submitted, row_times, rerun, answers>>
    /\ UNCHANGED <<estVars, pctVars>>

\* compute_selectivity_cutoffs, one iteration of the loop at lines 111-115:
\* the engine answers the quantile query with a date or raises.  The sample
\* file does not change, so the same fraction gets the same answer again.
CalibrateQuery ==
    /\ pc = "calibrate"
    /\ calibrated < Len(selectivities)
    /\ queries' = queries + 1
    /\ \/ \E q \in CutoffChoices :
            /\ selectivities[calibrated + 1] \in DOMAIN answers =>
                   q = answers[selectivities[calibrated + 1]]
            /\ answers' = [f \in DOMAIN answers \cup {selectivities[calibrated + 1]} |->
                              IF f = selectivities[calibrated + 1] THEN q ELSE answers[f]]
            /\ cutoffs' = [f \in DOMAIN cutoffs \cup {selectivities[calibrated + 1]} |->
                              IF f = selectivities[calibrated + 1] THEN q ELSE cutoffs[f]]
            /\ calibrated' = calibrated + 1
            /\ UNCHANGED <<pc, error>>
       \/ Raise("EngineError") /\ UNCHANGED <<cutoffs, calibrated, answers>>
    /\ UNCHANGED <<inputs, pv, stage, unit, cell, r, times, rows, metrics_csv,
                   prof_root, prof_dirs, prof_runs, manifest_read>>
    /\ UNCHANGED <<submitted, row_times, rerun>>
    /\ UNCHANGED <<estVars, pctVars>>

\* line 116 and lines 181-186
CalibrateReturn ==
    /\ pc = "calibrate"
    /\ calibrated = Len(selectivities)
    /\ pc' = "variant"
    /\ stage' = "parquet"
    /\ unit' = 0
    /\ UNCHANGED <<inputs, pv, cutoffs, calibrated, cell, r, times, rows, metrics_csv,
                   prof_root, prof_dirs, prof_runs, manifest_read, queries, error>>
    /\ UNCHANGED <<submitted, row_times, rerun, answers>>
    /\ UNCHANGED <<estVars, pctVars>>

\* head of the loop at line 187 and lines 188-193
NextVariant ==
    /\ pc = "variant"
    /\ IF unit < Len(pv)
       THEN pc' = "cell" /\ cell' = 1
       ELSE pc' = "formats" /\ UNCHANGED cell
    /\ UNCHANGED <<inputs, pv, cutoffs, calibrated, stage, unit, r, times, rows,
                   metrics_csv, prof_root, prof_dirs, prof_runs, manifest_read,
                   queries, error>>
    /\ UNCHANGED <<submitted, row_times, rerun, answers>>
    /\ UNCHANGED <<estVars, pctVars>>

\* start of a cell, e.g. lines 197-200: the directory is made, then
\* CFG["runs_per_case"] is read for the repetition loop
BeginCell ==
    /\ pc = "cell"
    /\ prof_dirs' = prof_dirs \cup {CurDir}
    /\ times' = << >>
    /\ IF CFG.runs_per_case = None
       THEN Raise("KeyError") /\ UNCHANGED r
       ELSE pc' = "rep" /\ r' = 0 /\ UNCHANGED error
    /\ UNCHANGED <<inputs, pv, cutoffs, calibrated, stage, unit, cell, rows, metrics_csv,
                   prof_root, prof_runs, manifest_read, queries>>
    /\ UNCHANGED <<submitted, row_times, rerun, answers>>
    /\ UNCHANGED <<estVars, pctVars>>

\* one repetition, e.g. lines 201-203 with run_query_with_profile, lines
\* 160-167: the engine is told the diagnostic path, runs the query and either
\* returns (the elapsed time is appended) or raises.  The elapsed time of
\* repetition r is the latency of this run plus r ms of drift.
RunRepetition ==
    /\ pc = "rep"
    /\ r < runs_per_case
    /\ prof_runs' = prof_runs \cup
           {[cell |-> CurCellId, rep |-> r, path |-> ProfPath(CurDir, r)]}
    /\ submitted' = Append(submitted,
           [cell |-> CurCellId, rep |-> r, sql |-> CurrentSql])
    /\ queries' = queries + 1
    /\ \/ /\ times' = Append(times, engine_ms + r)
          /\ r' = r + 1
          /\ UNCHANGED <<pc, error>>
       \/ Raise("EngineError") /\ UNCHANGED <<times, r>>
    /\ UNCHANGED <<inputs, pv, cutoffs, calibrated, stage, unit, cell, rows, metrics_csv,
                   prof_root, prof_dirs, manifest_read>>
    /\ UNCHANGED <<row_times, rerun, answers>>
    /\ UNCHANGED <<estVars, pctVars>>

\* end of a cell, e.g. lines 204-221: percentiles, scan accounting and
\* rows.append; round(None, 2) raises TypeError when there were no timings
FinishCell ==
    /\ pc = "rep"
    /\ r = runs_per_case
    /\ IF percentile(times, 50).none
       THEN Raise("TypeError") /\ UNCHANGED <<rows, row_times, cell, unit>>
       ELSE /\ rows' = Append(rows, CurrentRow)
            /\ row_times' = Append(row_times, times)
            /\ IF cell < Len(Cells)
               THEN pc' = "cell" /\ cell' = cell + 1 /\ UNCHANGED unit
               ELSE /\ pc' = IF stage = "parquet" THEN "variant" ELSE "format"
                    /\ unit' = unit + 1
                    /\ UNCHANGED cell
            /\ UNCHANGED error
    /\ UNCHANGED <<inputs, pv, cutoffs, calibrated, stage, r, times, metrics_csv,
                   prof_root, prof_dirs, prof_runs, manifest_read, queries>>
    /\ UNCHANGED <<submitted, rerun, answers>>
    /\ UNCHANGED <<estVars, pctVars>>

\* lines 306-307: CFG["formats"] raises KeyError when the key is absent
EnterRowFormats ==
    /\ pc = "formats"
    /\ IF CFG.formats = None
       THEN Raise("KeyError") /\ UNCHANGED <<stage, unit>>
       ELSE pc' = "format" /\ stage' = "row" /\ unit' = 0 /\ UNCHANGED error
    /\ UNCHANGED <<inputs, pv, cutoffs, calibrated, cell, r, times, rows, metrics_csv,
                   prof_root, prof_dirs, prof_runs, manifest_read, queries>>
    /\ UNCHANGED <<submitted, row_times, rerun, answers>>
    /\ UNCHANGED <<estVars, pctVars>>

\* head of the loop at line 307 and lines 308-312
NextFormat ==
    /\ pc = "format"
    /\ IF unit = Len(formats)
       THEN pc' = "write" /\ UNCHANGED <<unit, cell>>
       ELSE IF formats[unit + 1] \notin row_formats
            THEN unit' = unit + 1 /\ UNCHANGED <<pc, cell>>
            ELSE pc' = "cell" /\ cell' = 1 /\ UNCHANGED unit
    /\ UNCHANGED <<inputs, pv, cutoffs, calibrated, stage, r, times, rows, metrics_csv,
                   prof_root, prof_dirs, prof_runs, manifest_read, queries, error>>
    /\ UNCHANGED <<submitted, row_times, rerun, answers>>
    /\ UNCHANGED <<estVars, pctVars>>

\* variant of WriteMetrics: the rows are added to the table already on disk
WriteMetrics_append ==
    /\ pc = "write"
    /\ metrics_csv' = IF metrics_csv = None THEN Some(rows)
                      ELSE Some(metrics_csv[1] \o rows)
    /\ pc' = "done"
    /\ UNCHANGED <<inputs, pv, cutoffs, calibrated, stage, unit, cell, r, times, rows,
                   prof_root, prof_dirs, prof_runs, manifest_read, queries, error>>
    /\ UNCHANGED <<submitted, row_times, rerun, answers>>
    /\ UNCHANGED <<estVars, pctVars>>

\* lines 392-393
WriteMetrics ==
    /\ pc = "write"
    /\ metrics_csv' = Some(rows)
    /\ pc' = "done"
    /\ UNCHANGED <<inputs, pv, cutoffs, calibrated, stage, unit, cell, r, times, rows,
                   prof_root, prof_dirs, prof_runs, manifest_read, queries, error>>
    /\ UNCHANGED <<submitted, row_times, rerun, answers>>
    /\ UNCHANGED <<estVars, pctVars>>

\* lines 396-397, the script is started again after a completed run: a new
\* process, the files of the first run still on disk
Rerun ==
    /\ pc = "done"
    /\ ~rerun
    /\ rerun' = TRUE
    /\ pc' = "start"
    /\ pv' = << >>
    /\ cutoffs' = [f \in {} |-> 0]
    /\ calibrated' = 0
    /\ stage' = "parquet"
    /\ unit' = 0
    /\ cell' = 0
    /\ r' = 0
    /\ times' = << >>
    /\ rows' = << >>
    /\ row_times' = << >>
    /\ submitted' = << >>
    /\ prof_runs' = {}
    /\ manifest_read' = FALSE
    /\ queries' = 0
    /\ UNCHANGED <<inputs, metrics_csv, prof_root, prof_dirs, error, answers>>
    /\ UNCHANGED <<estVars, pctVars>>

-----------------------------------------------------------------------------
EstNext == EstIterate \/ EstReturn

InitEst == EstInit /\ PctIdle /\ RunIdle

SpecEst == InitEst /\ [][EstNext]_vars

PctNext == PctCompute \/ PctShuffle

InitPct == PctInit /\ EstIdle /\ RunIdle

SpecPct == InitPct /\ [][PctNext]_vars

Next ==
    \/ ImportModule
    \/ ReadManifest
    \/ ReadSelectivities
    \/ CalibrateQuery
    \/ CalibrateReturn
    \/ NextVariant
    \/ BeginCell
    \/ RunRepetition
    \/ FinishCell
    \/ EnterRowFormats
    \/ NextFormat
    \/ WriteMetrics
    \/ Rerun

Init == RunInit /\ EstIdle /\ PctIdle

Spec == Init /\ [][Next]_vars

-----------------------------------------------------------------------------
(* Properties of the estimator *)

\* sum of the byte sizes of the row groups of s whose index is in S
RECURSIVE BytesOf(_, _)
BytesOf(s, S) ==
    IF S = {} THEN 0
    ELSE LET j == CHOOSE x \in S : TRUE
         IN s[j].total_byte_size + BytesOf(s, S \ {j})

\* the l_shipdate minimum is not available for row group j of the file
MinUnavailable(j) ==
    \/ ~has_column
    \/ ~groups[j].has_stats
    \/ groups[j].min.t = "none"
    \/ groups[j].min.t \in {"badstr", "badbytes"}

\* the day the available minimum of row group j denotes
MinDay(j) ==
    LET m == groups[j].min IN
    CASE m.t \in {"date", "str", "bytes"} -> m.d
      [] m.t = "int"   -> m.n
      [] m.t = "float" -> IF m.h >= 0 THEN m.h \div 2 ELSE -((-m.h) \div 2)

\* row groups the predicate l_shipdate < cutoff lets a reader skip
Prunable == { j \in 1..Len(groups) : ~MinUnavailable(j) /\ MinDay(j) >= cutoff }

\* C1: a row group whose l_shipdate minimum is not available (column missing,
\* no statistics object, no min, min not convertible to a date) is counted
\* as scanned by the iteration that processes it: its byte size is added to
\* scanned_bytes and 1 to scanned_groups; it is never pruned.
C1_AbsentStatsScanned ==
    [][ (i' = i + 1 /\ MinUnavailable(i + 1)) =>
            /\ scanned_bytes' = scanned_bytes + groups[i + 1].total_byte_size
            /\ scanned_groups' = scanned_groups + 1
            /\ decided'[i + 1] = "scanned" ]_vars

\* a finished call over a file that has the column, with a row group without
\* statistics, one without min and one with an unconvertible min
C1_Witness ==
    /\ est_pc = "returned"
    /\ has_column
    /\ \E j \in 1..Len(groups) : ~groups[j].has_stats /\ decided[j] = "scanned"
    /\ \E j \in 1..Len(groups) :
           groups[j].has_stats /\ groups[j].min.t = "none" /\ decided[j] = "scanned"
    /\ \E j \in 1..Len(groups) :
           groups[j].min.t \in {"badstr", "badbytes"} /\ decided[j] = "scanned"

SpecScenario ==
    << RowGroup(100, TRUE, DateV(0)), RowGroup(100, TRUE, DateV(10)),
       RowGroup(100, TRUE, DateV(20)) >>

\* C2: for l_shipdate < cutoff a row group is pruned iff its minimum is
\* present and >= cutoff (equality prunes); scanned_groups counts the other
\* row groups and scanned_bytes is the sum of their byte sizes.  For minima
\* day 0, 10, 20 of 100 bytes each and cutoff day 15: row groups 0 and 1
\* scanned, scanned_bytes = 200, total_bytes = 300.
C2_PruneIffMinGeCutoff ==
    est_pc = "returned" =>
        /\ \A j \in 1..Len(groups) : (decided[j] = "pruned") <=> (j \in Prunable)
        /\ scanned_groups = Cardinality((1..Len(groups)) \ Prunable)
        /\ scanned_bytes = BytesOf(groups, (1..Len(groups)) \ Prunable)
        /\ (groups = SpecScenario /\ has_column /\ cutoff = 15) =>
               /\ decided = <<"scanned", "scanned", "pruned">>
               /\ scanned_bytes = 200
               /\ total_bytes = 300

C2_Witness ==
    /\ est_pc = "returned"
    /\ groups = SpecScenario /\ has_column /\ cutoff = 15
    /\ scanned_bytes = 200 /\ scanned_groups = 2

\* C3: at every step of the loop and in the result scanned_bytes <=
\* total_bytes and scanned_groups <= total_groups; total_groups is the
\* number of row groups and total_bytes the sum of the byte sizes of the
\* row groups processed so far, all of them once the call has returned,
\* whatever was pruned or lacked statistics.
C3_ScannedWithinTotal ==
    est_pc \in {"loop", "returned"} =>
        /\ scanned_bytes <= total_bytes
        /\ scanned_groups <= total_groups
        /\ total_groups = Len(groups)
        /\ total_bytes = BytesOf(groups, 1..i)
        /\ est_pc = "returned" => total_bytes = BytesOf(groups, 1..Len(groups))

\* mid-loop, after a row group without statistics and a pruned one
C3_Witness ==
    /\ est_pc = "loop"
    /\ i = 2 /\ i < total_groups
    /\ \E j \in 1..i : ~groups[j].has_stats
    /\ \E j \in 1..i : decided[j] = "pruned"
    /\ scanned_bytes < total_bytes

-----------------------------------------------------------------------------
(* Properties of percentile *)

Occurrences(s, x) == Cardinality({ j \in 1..Len(s) : s[j] = x })

\* the nondecreasing arrangement of the timings s
Ascending(s) ==
    CHOOSE t \in [1..Len(s) -> { s[j] : j \in 1..Len(s) }] :
        /\ \A j \in 1..(Len(s) - 1) : t[j] <= t[j + 1]
        /\ \A j \in 1..Len(s) : Occurrences(t, s[j]) = Occurrences(s, s[j])

\* 100 times the linear-interpolation percentile of the ascending list t:
\* with k = (n-1)p/100, t[k] (0-based) when k is whole, otherwise
\* t[floor k] + (t[ceil k] - t[floor k]) (k - floor k)
Interpolated(t, p) ==
    LET n  == Len(t)
        lo == ((n - 1) * p) \div 100
        w  == ((n - 1) * p) % 100
    IN IF w = 0 THEN 100 * t[lo + 1]
       ELSE 100 * t[lo + 1] + (t[lo + 2] - t[lo + 1]) * w

\* C5: for timings in any order, percentile(vals, p), p in {50, 95}, is the
\* linear-interpolation percentile of the sorted timings; it is the same for
\* every permutation of the timings, lies between their minimum and maximum,
\* p50 <= p95, and for no timings the result is None.
C5_PercentileInterpolates ==
    pct_pc = "computed" =>
        LET t == Ascending(orig) IN
        /\ orig = << >> => (p50 = NoneP /\ p95 = NoneP)
        /\ orig # << >> =>
              /\ p50 = Num(Interpolated(t, 50))
              /\ p95 = Num(Interpolated(t, 95))
              /\ 100 * t[1] <= p50.x100 /\ p95.x100 <= 100 * t[Len(t)]
              /\ p50.x100 <= p95.x100

\* percentiles of four timings presented in an order that is neither the
\* measured one nor ascending, both results interpolated
C5_Witness ==
    /\ pct_pc = "computed"
    /\ Len(vals) = 4
    /\ vals # orig /\ vals # Ascending(orig)
    /\ p50.x100 % 100 # 0 /\ p95.x100 % 100 # 0
    /\ p50.x100 < p95.x100

-----------------------------------------------------------------------------
(* Properties of the run *)

\* the manifest entry a Parquet row was measured on
VariantOfRow(row) ==
    CHOOSE v \in VariantPool :
        /\ row.row_group_mb = Some(v.row_group_mb_target)
        /\ row.compression = Some(v.compression)
        /\ row.sorted = Some(sorted_flag(v))

\* C4: the row of the non-sargable query reports every row group of the
\* file as scanned, whatever the statistics say: rowgroups_scanned =
\* rowgroups_total = number of row groups, bytes_scanned = sum of all
\* row-group sizes, pushdown_hit = false; 300 bytes and 3 row groups for the
\* three 100-byte row groups with minima day 0, 10, 20.
C4_NoSargScansEverything ==
    \A j \in 1..Len(rows) :
        rows[j].query = "q1_nosarg" =>
            LET gs == ParquetFile(VariantOfRow(rows[j]).full_path).groups IN
            /\ rows[j].rowgroups_total = Some(Len(gs))
            /\ rows[j].rowgroups_scanned = Some(Len(gs))
            /\ rows[j].bytes_scanned = Some(BytesOf(gs, 1..Len(gs)))
            /\ rows[j].pushdown_hit = Some(FALSE)
            /\ gs = SpecScenario =>
                  /\ rows[j].bytes_scanned = Some(300)
                  /\ rows[j].rowgroups_scanned = Some(3)

\* a written table with the non-sargable row of the sorted file next to a
\* date-filter row of the same file for which row groups were pruned
C4_Witness ==
    /\ pc = "done"
    /\ \E a, b \in 1..Len(metrics_csv[1]) :
          LET ra == metrics_csv[1][a]
              rb == metrics_csv[1][b] IN
          /\ ra.query = "q1_nosarg" /\ ra.sorted = Some(TRUE)
          /\ ra.bytes_scanned = Some(300)
          /\ rb.query = "q1_filter_agg" /\ rb.sorted = Some(TRUE)
          /\ rb.pushdown_hit = Some(TRUE)

\* every cell of the matrix the configuration and the manifest describe
AllCellIds ==
    { CellId("parquet", pv[u], ParquetCells(selectivities)[c]) :
          u \in 1..Len(pv), c \in 1..(Len(selectivities) + 4) }
    \cup
    (IF CFG.formats = None THEN {}
     ELSE { CellId(formats[u], CHOOSE v \in VariantPool : TRUE,
                   RowCells(selectivities)[c]) :
              u \in { x \in 1..Len(formats) : formats[x] \in row_formats },
              c \in 1..(Len(selectivities) + 3) })

\* the engine raised while a repetition of a cell was running
RepetitionRaised == error = Some("EngineError") /\ cell >= 1

Halted == pc \in {"done", "aborted"}

\* C6: when a repetition of a cell raises an engine error the run goes on:
\* once the run has ended, every cell of the matrix has been executed and
\* the metric table has been written.
C6_CellFailureIsolated ==
    (RepetitionRaised /\ Halted) =>
        /\ metrics_csv # None
        /\ AllCellIds \subseteq { x.cell : x \in prof_runs }

\* C7: with runs_per_case = 5 and one repetition raising after four
\* succeeded, the table holds a row for that cell whose p50/p95 are those
\* of the four timings.
C7_RowOverSurvivingTimings ==
    (RepetitionRaised /\ Halted /\ CFG.runs_per_case = Some(5) /\ Len(times) = 4) =>
        /\ metrics_csv # None
        /\ \E j \in 1..Len(metrics_csv[1]) :
              LET row == metrics_csv[1][j] IN
              /\ row.query = CurCellId.query
              /\ row.format = CurCellId.format
              /\ row.selectivity = CurCellId.selectivity
              /\ row.column_mode = CurCellId.column_mode
              /\ row.row_group_mb = CurCellId.row_group_mb
              /\ row.compression = CurCellId.compression
              /\ row.p50_ms = round2(percentile(times, 50))
              /\ row.p95_ms = round2(percentile(times, 95))

\* C8: when a missing configuration key is reported nothing has been read,
\* run or created yet: the manifest is unread, no query was submitted and
\* no profiling directory exists.
C8_ConfigErrorBeforeIO ==
    error = Some("KeyError") =>
        /\ ~manifest_read
        /\ queries = 0
        /\ prof_dirs = {}
        /\ ~prof_root

\* C9: two different (cell, repetition) pairs of a run never get the same
\* diagnostic path.
C9_DiagnosticPathsDistinct ==
    \A a, b \in prof_runs :
        a.path = b.path => (a.cell = b.cell /\ a.rep = b.rep)

\* C10: in every row pushdown_hit is true iff rowgroups_scanned <
\* rowgroups_total, false when both counts are present and equal, and null
\* exactly when both counts are null.
C10_PushdownHitMatchesCounts ==
    \A j \in 1..Len(rows) :
        LET row == rows[j]
            counted == row.rowgroups_total # None /\ row.rowgroups_scanned # None
        IN /\ (row.pushdown_hit = Some(TRUE)) <=>
                  (counted /\ row.rowgroups_scanned[1] < row.rowgroups_total[1])
           /\ (counted /\ row.rowgroups_scanned[1] = row.rowgroups_total[1]) =>
                  row.pushdown_hit = Some(FALSE)
           /\ (row.pushdown_hit = None) <=>
                  (row.rowgroups_total = None /\ row.rowgroups_scanned = None)

-----------------------------------------------------------------------------
(* Scan accounting in the rows *)

NonFiltering == {"q2_projection", "q3_scan_group"}

\* the scan-accounting fields of a Parquet date-filter row are the result of
\* the estimator for the row's file and the cutoff of the row's selectivity
CopiedFromEstimator(row) ==
    LET e == parquet_bytes_and_groups_for_cutoff(
                 ParquetFile(VariantOfRow(row).full_path),
                 cutoffs[row.selectivity[1]])
    IN /\ row.bytes_scanned = Some(e.sb)
       /\ row.rowgroups_total = Some(e.tg)
       /\ row.rowgroups_scanned = Some(e.sg)

\* C11 as claimed: in every row of a non-filtering query, whatever the
\* format, bytes_scanned, rowgroups_total and rowgroups_scanned are all
\* null; in a Parquet q1_filter_agg row they are the estimator's result.
C11_AccountingAbsentForAllFormats ==
    \A j \in 1..Len(rows) :
        /\ rows[j].query \in NonFiltering =>
              /\ rows[j].bytes_scanned = None
              /\ rows[j].rowgroups_total = None
              /\ rows[j].rowgroups_scanned = None
        /\ (rows[j].query = "q1_filter_agg" /\ rows[j].format = "parquet") =>
              CopiedFromEstimator(rows[j])

\* C11 as amended: in a Parquet row of a non-filtering query bytes_scanned,
\* rowgroups_total and rowgroups_scanned are all null; in a csv or ndjson
\* row of a non-filtering query the two row-group counts are null and
\* bytes_scanned is the size of the data file; in a Parquet q1_filter_agg
\* row the three fields are the estimator's result for the same file and
\* cutoff.
C11_AccountingByFormat ==
    \A j \in 1..Len(rows) :
        /\ (rows[j].query \in NonFiltering /\ rows[j].format = "parquet") =>
              /\ rows[j].bytes_scanned = None
              /\ rows[j].rowgroups_total = None
              /\ rows[j].rowgroups_scanned = None
        /\ (rows[j].query \in NonFiltering /\ rows[j].format \in row_formats) =>
              /\ rows[j].bytes_scanned = Some(FileSize(rows[j].format))
              /\ rows[j].rowgroups_total = None
              /\ rows[j].rowgroups_scanned = None
        /\ (rows[j].query = "q1_filter_agg" /\ rows[j].format = "parquet") =>
              CopiedFromEstimator(rows[j])

\* a written table with projection and aggregation rows of Parquet, csv and
\* ndjson and a Parquet date-filter row for which row groups were pruned
C11_Witness ==
    /\ pc = "done"
    /\ \E a, b, c, d \in 1..Len(metrics_csv[1]) :
          LET t == metrics_csv[1] IN
          /\ t[a].query = "q2_projection" /\ t[a].format = "parquet"
          /\ t[b].query = "q3_scan_group" /\ t[b].format = "csv"
          /\ t[c].query = "q2_projection" /\ t[c].format = "ndjson"
          /\ t[d].query = "q1_filter_agg" /\ t[d].format = "parquet"
          /\ t[d].rowgroups_scanned[1] < t[d].rowgroups_total[1]

(* The calibrated cutoffs, lines 102-116 and 177-205 *)

\* the key columns of a row, as the identity of its matrix cell
RowKey(row) ==
    [format       |-> row.format,
     row_group_mb |-> row.row_group_mb,
     compression  |-> row.compression,
     sorted       |-> row.sorted,
     query        |-> row.query,
     column_mode  |-> row.column_mode,
     selectivity  |-> row.selectivity]

\* the positions of main() after compute_selectivity_cutoffs has returned
AfterCalibration == {"variant", "cell", "rep", "formats", "format", "write"}

\* the cutoff written into the text of the n-th submitted query
TextCutoff(n) == submitted[n].sql.cutoff

C12_SameThreshold ==
    /\ submitted # << >> =>
          /\ calibrated = Len(selectivities)
          /\ DOMAIN cutoffs = {selectivities[j] : j \in 1..Len(selectivities)}
    /\ \A n \in 1..Len(submitted) :
          submitted[n].cell.query = "q1_filter_agg" =>
              /\ submitted[n].sql.shape = "q1"
              /\ TextCutoff(n) = Some(cutoffs[submitted[n].cell.selectivity[1]])
    /\ \A j \in 1..Len(rows) :
          (rows[j].query = "q1_filter_agg" /\ rows[j].format = "parquet") =>
              LET key   == RowKey(rows[j])
                  texts == { TextCutoff(n) :
                                n \in { m \in 1..Len(submitted) : submitted[m].cell = key } }
              IN /\ texts # {}
                 /\ \A T \in texts :
                       LET e == parquet_bytes_and_groups_for_cutoff(
                                    ParquetFile(VariantOfRow(rows[j]).full_path), T[1])
                       IN /\ rows[j].bytes_scanned = Some(e.sb)
                          /\ rows[j].rowgroups_total = Some(e.tg)
                          /\ rows[j].rowgroups_scanned = Some(e.sg)

C12_CutoffsFrozen ==
    [][(pc \in AfterCalibration) => (cutoffs' = cutoffs)]_vars

\* C12: the selectivity-to-cutoff mapping is complete before the first cell
\* query is submitted and no step of the run after the calibration changes
\* it; the text of every submitted q1 query, of every Parquet variant and
\* of every row format, carries cutoffs[s] for the selectivity s of its
\* cell; and the scan accounting of a Parquet q1 row is the estimator's
\* result at the very cutoff that is in the text of that cell's queries.
C12_CutoffsComputedOnceAndShared ==
    []C12_SameThreshold /\ C12_CutoffsFrozen

\* a finished run with two selectivities calibrated to different cutoffs,
\* q1 rows of the sorted and of the unsorted Parquet file and of csv, and
\* two cells of the sorted file whose estimates differ
C12_Witness ==
    /\ pc = "done"
    /\ Len(selectivities) = 2
    /\ cutoffs[selectivities[1]] # cutoffs[selectivities[2]]
    /\ \E a, b, c, d \in 1..Len(rows) :
          /\ rows[a].query = "q1_filter_agg" /\ rows[a].sorted = Some(TRUE)
          /\ rows[b].query = "q1_filter_agg" /\ rows[b].sorted = Some(TRUE)
          /\ rows[a].rowgroups_scanned # rows[b].rowgroups_scanned
          /\ rows[c].query = "q1_filter_agg" /\ rows[c].sorted = Some(FALSE)
          /\ rows[d].query = "q1_filter_agg" /\ rows[d].format = "csv"
    /\ \E n, m \in 1..Len(submitted) :
          /\ submitted[n].sql.shape = "q1" /\ submitted[m].sql.shape = "q1"
          /\ submitted[n].cell.format = "parquet" /\ submitted[m].cell.format = "csv"
          /\ TextCutoff(n) = TextCutoff(m)

(* The order of the trials, lines 160-167 and 186-390 *)

RECURSIVE Flatten(_)
Flatten(ss) == IF ss = << >> THEN << >> ELSE Head(ss) \o Flatten(Tail(ss))

\* the key of a cell of the matrix, written out column by column
MatrixCell(f, rg, codec, srt, q, mode, sel) ==
    [format |-> f, row_group_mb |-> rg, compression |-> codec, sorted |-> srt,
     query |-> q, column_mode |-> mode, selectivity |-> sel]

\* the date-filter cells of one storage variant, one per configured
\* selectivity in configured order
FilterCells(f, rg, codec, srt) ==
    [j \in 1..Len(selectivities) |->
        MatrixCell(f, rg, codec, srt, "q1_filter_agg", "n/a", Some(selectivities[j]))]

\* the enumeration order within a Parquet variant
VariantOrder(v) ==
    LET rg    == Some(v.row_group_mb_target)
        codec == Some(v.compression)
        srt   == Some(sorted_flag(v))
    IN FilterCells("parquet", rg, codec, srt) \o
       << MatrixCell("parquet", rg, codec, srt, "q1_nosarg", "n/a", None),
          MatrixCell("parquet", rg, codec, srt, "q2_projection", "narrow", None),
          MatrixCell("parquet", rg, codec, srt, "q2_projection", "wide", None),
          MatrixCell("parquet", rg, codec, srt, "q3_scan_group", "n/a", None) >>

\* the enumeration order within a row format; a configured format that is
\* not a row format has no cells (line 308)
FormatOrder(f) ==
    IF f \notin row_formats THEN << >> ELSE
    FilterCells(f, None, None, None) \o
       << MatrixCell(f, None, None, None, "q2_projection", "narrow", None),
          MatrixCell(f, None, None, None, "q2_projection", "wide", None),
          MatrixCell(f, None, None, None, "q3_scan_group", "n/a", None) >>

\* the matrix in enumeration order: the Parquet variants in manifest order,
\* then the row formats in configured order
MatrixOrder ==
    Flatten([k \in 1..Len(pv) |-> VariantOrder(pv[k])]) \o
    (IF CFG.formats = None THEN << >>
     ELSE Flatten([k \in 1..Len(formats) |-> FormatOrder(formats[k])]))

\* repetitions 0 .. runs_per_case - 1 of every cell, cell after cell
Schedule ==
    LET order == MatrixOrder
    IN IF order = << >> THEN << >> ELSE
       Flatten([k \in 1..Len(order) |->
                   [n \in 1..runs_per_case |-> [cell |-> order[k], rep |-> n - 1]]])

\* cell and repetition of every engine call made for a cell so far
Trials == [n \in 1..Len(submitted) |-> [cell |-> submitted[n].cell, rep |-> submitted[n].rep]]

IsPrefix(a, b) == Len(a) <= Len(b) /\ a = SubSeq(b, 1, Len(a))

\* C13: the engine calls made for cells so far are, call for call, an
\* initial segment of the schedule "every repetition of every cell once,
\* cell after cell in matrix enumeration order": all repetitions of a cell
\* precede the first repetition of the next cell, the variants come in
\* manifest order with their cells in the order q1 per selectivity, q1
\* non-sargable, q2 narrow, q2 wide, q3, the row formats come after all
\* Parquet variants, and no repetition is submitted twice.  A completed
\* run has made exactly the calls of the schedule, and the number of engine
\* calls is the number of calibration queries plus the number of trials.
C13_TrialsInEnumerationOrder ==
    /\ submitted # << >> => LET all == Schedule IN IsPrefix(Trials, all)
    /\ pc = "done" => Trials = Schedule
    /\ pc \in AfterCalibration \cup {"done"} =>
          queries = Len(selectivities) + Len(submitted)

\* a completed run over two Parquet variants and two row formats with two
\* selectivities and several repetitions per cell: 2 * 6 + 2 * 5 cells
C13_Witness ==
    /\ pc = "done"
    /\ Len(pv) = 2
    /\ \E a, b \in 1..Len(formats) : formats[a] = "csv" /\ formats[b] = "ndjson"
    /\ Len(selectivities) = 2 /\ selectivities[1] # selectivities[2]
    /\ runs_per_case > 1
    /\ Len(submitted) = 22 * runs_per_case

(* The rows of the result table, lines 184-393 *)

KeysOf(t) == [j \in 1..Len(t) |-> RowKey(t[j])]

Distinct(q) == \A a, b \in 1..Len(q) : a # b => q[a] # q[b]

\* pairwise distinct (row_group_mb_target, compression, sorted) in the manifest
DistinctVariants ==
    Distinct([k \in 1..Len(manifest_json) |->
                 <<manifest_json[k].row_group_mb_target,
                   manifest_json[k].compression,
                   sorted_flag(manifest_json[k])>>])

DistinctSelectivities == CFG.selectivities # None => Distinct(selectivities)

\* no row format is listed twice in `formats`
DistinctFormats ==
    CFG.formats # None =>
        \A a, b \in 1..Len(formats) :
            (a # b /\ formats[a] \in row_formats) => formats[a] # formats[b]

\* the rows in memory and the table on disk
RowsAndTable(premise) ==
    /\ Len(row_times) = Len(rows)
    /\ \A j \in 1..Len(rows) :
          /\ rows[j].runs = Len(row_times[j])
          /\ rows[j].p50_ms = round2(percentile(row_times[j], 50))
          /\ rows[j].p95_ms = round2(percentile(row_times[j], 95))
    /\ rows # << >> => LET order == MatrixOrder IN IsPrefix(KeysOf(rows), order)
    /\ pc = "done" =>
          /\ KeysOf(rows) = MatrixOrder
          /\ metrics_csv = Some(rows)
          /\ premise => Distinct(KeysOf(metrics_csv[1]))

\* a row is appended only by the step that ends a cell whose repetitions
\* have all run, and the rows before it stay as they are
RowsAppendOnly ==
    [][(pc # "done") =>
          \/ rows' = rows
          \/ /\ pc = "rep" /\ r = runs_per_case /\ Len(times) = runs_per_case
             /\ Len(submitted) >= runs_per_case
             /\ \A n \in 1..runs_per_case :
                   submitted[Len(submitted) - runs_per_case + n] =
                       [cell |-> CurCellId, rep |-> n - 1, sql |-> CurrentSql]
             /\ Len(rows') = Len(rows) + 1
             /\ SubSeq(rows', 1, Len(rows)) = rows
             /\ RowKey(rows'[Len(rows')]) = CurCellId]_vars

\* writing the table when there is one on disk already
RerunReplaces(premise) ==
    (pc = "write" /\ metrics_csv # None) =>
        /\ metrics_csv' = Some(rows)
        /\ {RowKey(metrics_csv'[1][j]) : j \in 1..Len(metrics_csv'[1])} =
           {RowKey(metrics_csv[1][j]) : j \in 1..Len(metrics_csv[1])}
        /\ premise => Distinct(KeysOf(metrics_csv'[1]))

\* the premises of the claim, and with distinct row formats added
StatedPremise  == DistinctVariants /\ DistinctSelectivities
AmendedPremise == DistinctVariants /\ DistinctSelectivities /\ DistinctFormats

RowsAndTableAsStated == RowsAndTable(StatedPremise)
RowsAndTableAmended  == RowsAndTable(AmendedPremise)

\* C14 as stated: with pairwise distinct variants and pairwise distinct
\* selectivities, a completed run has one row per matrix cell, each row is
\* appended once after the repetitions of its cell and left alone
\* afterwards, its runs field is the number of timings behind its p50 and
\* p95, no two rows of the table share the key, and a second run replaces
\* the table by one with the same keys and no duplicated row.
C14_OneRowPerCell ==
    /\ []RowsAndTableAsStated
    /\ RowsAppendOnly
    /\ [][RerunReplaces(StatedPremise)]_vars

\* C14 as amended: the same under the additional premise that no row
\* format is listed twice in `formats` (the sorted flag of a variant taken
\* with its default False when the manifest entry has none).
C14_OneRowPerCellOfDistinctFormats ==
    /\ []RowsAndTableAmended
    /\ RowsAppendOnly
    /\ [][RerunReplaces(AmendedPremise)]_vars

\* the second run has written its table: two Parquet variants, csv and
\* ndjson, two selectivities, several repetitions per cell, 22 rows
C14_Witness ==
    /\ pc = "done" /\ rerun
    /\ AmendedPremise
    /\ Len(manifest_json) = 2 /\ Len(selectivities) = 2
    /\ runs_per_case > 1
    /\ Len(metrics_csv[1]) = 22

(* The estimate as a function of the cutoff, lines 78-98 *)

\* the cutoffs the returned estimate is compared with: every day from the
\* earliest minimum of RowGroupChoices to the day after the latest
OtherCutoffs == 0..21

\* the estimate of the call that has returned
Returned ==
    [sb |-> scanned_bytes, tb |-> total_bytes, sg |-> scanned_groups, tg |-> total_groups]

\* the row groups of the file read at cutoff T
ScannedAt(T) == { j \in 1..Len(groups) : ~Pruned(groups[j], has_column, T) }

\* estimate lo, taken at the lower cutoff, against estimate hi
NoMoreThan(lo, hi) ==
    /\ lo.sb <= hi.sb
    /\ lo.sg <= hi.sg
    /\ lo.tb = hi.tb
    /\ lo.tg = hi.tg

\* C15: for the row groups of a call that has returned and any second
\* cutoff, the estimate at the lower of the two cutoffs has scanned_bytes
\* and scanned_groups no larger than the estimate at the higher one, every
\* row group scanned at the lower cutoff is scanned at the higher one, and
\* total_bytes and total_groups are the same at both.
C15_MonotoneInCutoff ==
    est_pc = "returned" =>
        \A T \in OtherCutoffs :
            LET other == parquet_bytes_and_groups_for_cutoff(
                             [has_column |-> has_column, groups |-> groups], T)
                mine  == { j \in 1..Len(groups) : decided[j] = "scanned" }
            IN /\ cutoff <= T => NoMoreThan(Returned, other) /\ mine \subseteq ScannedAt(T)
               /\ T <= cutoff => NoMoreThan(other, Returned) /\ ScannedAt(T) \subseteq mine

\* the spec scenario read at cutoff 10: one row group scanned there, two at
\* cutoff 15 and all three at cutoff 21
C15_Witness ==
    /\ est_pc = "returned"
    /\ groups = SpecScenario /\ has_column /\ cutoff = 10
    /\ scanned_groups = 1 /\ scanned_bytes = 100
    /\ parquet_bytes_and_groups_for_cutoff(
           [has_column |-> TRUE, groups |-> groups], 15).sg = 2
    /\ parquet_bytes_and_groups_for_cutoff(
           [has_column |-> TRUE, groups |-> groups], 21).sb = 300

====
